---- MODULE Spec2Model ----
(***************************************************************************)
(* tree-sitter-debugger (src/main.go): main, executeQuery and printTree.   *)
(* Text is modelled as sequences of bytes (integers 0..255); standard      *)
(* output is one byte stream.  The grammar engine (parser, query compiler, *)
(* match iterator) is external: its answers are inputs of the model.       *)
(***************************************************************************)
EXTENDS Integers, Sequences, FiniteSets, TLC

VARIABLES listLanguages, lang, args, readFails,
          source, tree, query, pc, stdout, stderr, exitCode, res,
          deferMain, deferExec, err, matchCount, stream, stack

\* the command line and the outcome of reading the input
cmdline == <<listLanguages, lang, args, readFails>>

vars == <<cmdline, source, tree, query, pc, stdout, stderr, exitCode, res,
          deferMain, deferExec, err, matchCount, stream, stack>>

(***************************************************************************)
(* Bounds of the exploration.                                              *)
(***************************************************************************)
\* longest source buffer of a run whose every byte is drawn freely
MaxSrcLen == 3
\* longest source buffer of a query run
MaxQuerySrcLen == 1
\* most matches the engine yields in one run
MaxMatches == 3
\* most captures the engine yields in one run, over all matches
MaxCaptures == 2
\* long leaves are TruncKeep - LeafSlack .. TruncLimit + LeafSlack characters
\* of one kind, followed by 0 .. LeafSlack characters of another
LeafSlack == 3

(***************************************************************************)
(* Program constants.                                                      *)
(***************************************************************************)
NL == 10
TAB == 9
CR == 13
BSL == 92
TruncLimit == 50
TruncKeep == 47
MaxScanTokenSize == 65536

\* "\\n" and "\\t": a backslash followed by a letter
EscNL == <<BSL, 110>>
EscTAB == <<BSL, 116>>
\* "..."
Ellipsis == <<46, 46, 46>>
\* "No matches found"
NoMatchesFound == <<78, 111, 32, 109, 97, 116, 99, 104, 101, 115, 32,
                    102, 111, 117, 110, 100>>
\* "start: ", "end: ", "content:"
StartLabel == <<115, 116, 97, 114, 116, 58, 32>>
EndLabel == <<101, 110, 100, 58, 32>>
ContentLabel == <<99, 111, 110, 116, 101, 110, 116, 58>>

(***************************************************************************)
(* Sequences of bytes.                                                     *)
(***************************************************************************)
Seqs(S, n) == UNION {[1..k -> S] : k \in 0..n}

\* the recursions below halve their argument, so their depth stays small
RECURSIVE Rep(_, _)
Rep(s, n) ==
  IF n = 0 THEN <<>>
  ELSE IF n = 1 THEN s
  ELSE Rep(s, n \div 2) \o Rep(s, n - (n \div 2))

RECURSIVE Flatten(_)
Flatten(ss) ==
  IF ss = <<>> THEN <<>>
  ELSE IF Len(ss) = 1 THEN ss[1]
  ELSE Flatten(SubSeq(ss, 1, Len(ss) \div 2))
       \o Flatten(SubSeq(ss, (Len(ss) \div 2) + 1, Len(ss)))

\* source[lo:hi], a Go slice expression with 0-based half-open bounds
Slice(s, lo, hi) == SubSeq(s, lo + 1, hi)

\* strings.Repeat("  ", depth)
Indent(depth) == Rep(<<32, 32>>, depth)

\* strings.ReplaceAll(s, old, new) for a one-byte old
ReplaceAll(s, old, new) ==
  Flatten([i \in 1..Len(s) |-> IF s[i] = old THEN new ELSE <<s[i]>>])

\* the %d verb of fmt for a natural number
RECURSIVE Itoa(_)
Itoa(n) == IF n < 10 THEN <<48 + n>> ELSE Itoa(n \div 10) \o <<48 + (n % 10)>>

(***************************************************************************)
(* bufio.Scanner with the default split function ScanLines.                *)
(***************************************************************************)
\* index of the first NL of s, 0 when there is none
FirstNL(s) ==
  LET hits == {i \in 1..Len(s) : s[i] = NL}
  IN IF hits = {} THEN 0 ELSE CHOOSE i \in hits : \A j \in hits : i <= j

\* bufio's dropCR: a line loses one trailing carriage return
DropCR(line) ==
  IF Len(line) > 0 /\ line[Len(line)] = CR
  THEN SubSeq(line, 1, Len(line) - 1) ELSE line

\* the tokens scanner.Scan() yields for a reader over content; a line that
\* does not fit the scanner's buffer ends the scan (Scan returns false)
RECURSIVE ScanLines(_)
ScanLines(content) ==
  IF content = <<>> THEN <<>>
  ELSE LET j == FirstNL(content)
       IN IF j = 0
          THEN IF Len(content) >= MaxScanTokenSize THEN <<>>
               ELSE <<DropCR(content)>>
          ELSE IF j - 1 >= MaxScanTokenSize THEN <<>>
               ELSE <<DropCR(SubSeq(content, 1, j - 1))>>
                    \o ScanLines(SubSeq(content, j + 1, Len(content)))

(***************************************************************************)
(* Nodes and trees, as the engine hands them over.                         *)
(***************************************************************************)
\* the (row, column) of byte offset b of src, both 0-based, column in bytes
PointAt(src, b) ==
  LET nls == {i \in 1..b : src[i] = NL}
      last == IF nls = {} THEN 0
              ELSE CHOOSE i \in nls : \A j \in nls : j <= i
  IN [Row |-> Cardinality(nls), Column |-> b - last]

MkNode(src, kind, named, children, lo, hi) ==
  [kind |-> kind, named |-> named, children |-> children,
   startByte |-> lo, endByte |-> hi,
   startPosition |-> PointAt(src, lo), endPosition |-> PointAt(src, hi)]

ChildCount(n) == Len(tree[n].children)
Child(n, i) == tree[n].children[i + 1]
IsNamed(n) == tree[n].named
Kind(n) == tree[n].kind
Content(n) == Slice(source, tree[n].startByte, tree[n].endByte)

\* the trees of a dump run over src: node 1 is the root; p <= q split src
TreesOf(src) ==
  LET L == Len(src)
      N(k, nm, ch, lo, hi) == MkNode(src, <<k>>, nm, ch, lo, hi)
  IN {<<N(114, TRUE, <<>>, 0, L)>>}
     \cup UNION {
       { \* an anonymous and a named leaf, bytes p..q in neither
         <<N(114, TRUE, <<2, 3>>, 0, L),
           N(120, FALSE, <<>>, 0, p), N(121, TRUE, <<>>, q, L)>>,
         \* two levels, the leaves tiling the source
         <<N(114, TRUE, <<2, 5>>, 0, L), N(120, TRUE, <<3, 4>>, 0, q),
           N(121, TRUE, <<>>, 0, p), N(122, FALSE, <<>>, p, q),
           N(121, TRUE, <<>>, q, L)>>,
         \* an anonymous node that has children
         <<N(114, TRUE, <<2, 4>>, 0, L), N(120, FALSE, <<3>>, 0, q),
           N(121, TRUE, <<>>, 0, p), N(122, FALSE, <<>>, q, L)>> }
       : <<p, q>> \in {pq \in (0..L) \X (0..L) : pq[1] <= pq[2]} }

\* the tree of a query run: a root and one child that overlaps it
QueryTreeOf(src) ==
  LET L == Len(src)
      m == IF L = 0 THEN 0 ELSE 1
  IN <<MkNode(src, <<114>>, TRUE, <<2>>, 0, L),
       MkNode(src, <<120>>, TRUE, <<>>, m, L)>>

\* the tree of a long-leaf run: a root and one named leaf spanning it
LeafTreeOf(src) ==
  <<MkNode(src, <<114>>, TRUE, <<2>>, 0, Len(src)),
    MkNode(src, <<120>>, TRUE, <<>>, 0, Len(src))>>

\* characters a long leaf is made of: a, newline, tab, e-acute (2 bytes),
\* the euro sign (3 bytes)
LeafChars == {<<97>>, <<NL>>, <<TAB>>, <<195, 169>>, <<226, 130, 172>>}

LongLeaves ==
  {Rep(c1, n1) \o Rep(c2, n2) :
     <<c1, c2>> \in LeafChars \X LeafChars,
     <<n1, n2>> \in ((TruncKeep - LeafSlack)..(TruncLimit + LeafSlack))
                    \X (0..LeafSlack)}

TreeBytes == {NL, TAB, BSL, 110}
QueryBytes == {97, NL, CR}

(***************************************************************************)
(* The command line, the language table and main's messages.               *)
(***************************************************************************)
\* the keys of supportedLanguages: bash, c, cpp, css, go, html, java,
\* javascript, js, php, python, py, ruby, rust, typescript, ts, tsx
LanguageNames ==
  {<<98, 97, 115, 104>>,
   <<99>>,
   <<99, 112, 112>>,
   <<99, 115, 115>>,
   <<103, 111>>,
   <<104, 116, 109, 108>>,
   <<106, 97, 118, 97>>,
   <<106, 97, 118, 97, 115, 99, 114, 105, 112, 116>>,
   <<106, 115>>,
   <<112, 104, 112>>,
   <<112, 121, 116, 104, 111, 110>>,
   <<112, 121>>,
   <<114, 117, 98, 121>>,
   <<114, 117, 115, 116>>,
   <<116, 121, 112, 101, 115, 99, 114, 105, 112, 116>>,
   <<116, 115>>,
   <<116, 115, 120>>}

\* Go's string order: byte by byte, a proper prefix first
StringLess(a, b) ==
  \E i \in 1..(Len(b)) :
    /\ i <= Len(a) + 1
    /\ \A j \in 1..(i - 1) : a[j] = b[j]
    /\ i = Len(a) + 1 \/ a[i] < b[i]

\* sort.Strings
RECURSIVE SortStrings(_)
SortStrings(S) ==
  IF S = {} THEN <<>>
  ELSE LET m == CHOOSE x \in S : \A y \in S \ {x} : StringLess(x, y)
       IN <<m>> \o SortStrings(S \ {m})

getSupportedLanguages == SortStrings(LanguageNames)

\* strings.Join(elems, sep)
RECURSIVE Join(_, _)
Join(elems, sep) ==
  IF elems = <<>> THEN <<>>
  ELSE IF Len(elems) = 1 THEN elems[1]
  ELSE elems[1] \o sep \o Join(Tail(elems), sep)

\* the values of --lang the runs take: none, "go", "cobol"
NoLang == <<>>
GoLang == <<103, 111>>
UnknownLang == <<99, 111, 98, 111, 108>>
\* the file name argument of a run that has one: "f"
FileName == <<102>>
\* the text of a read error, which the operating system words: "EOF"
ReadErrorText == <<69, 79, 70>>
\* the text of a query compile error, which the engine words: "syntax"
QueryErrorText == <<115, 121, 110, 116, 97, 120>>

\* "Supported languages:"
ListHeader == <<83, 117, 112, 112, 111, 114, 116, 101, 100, 32, 108, 97, 110,
              103, 117, 97, 103, 101, 115, 58>>
\* " -" and the blank Println puts between its operands
ListBullet == <<32, 45, 32>>
\* "Error: --lang is required"
LangRequired == <<69, 114, 114, 111, 114, 58, 32, 45, 45, 108, 97, 110, 103,
                32, 105, 115, 32, 114, 101, 113, 117, 105, 114, 101, 100>>
\* "Use --list-languages to see all supported languages"
UseListLanguages == <<85, 115, 101, 32, 45, 45, 108, 105, 115, 116, 45, 108, 97,
                    110, 103, 117, 97, 103, 101, 115, 32, 116, 111, 32, 115, 101,
                    101, 32, 97, 108, 108, 32, 115, 117, 112, 112, 111, 114, 116,
                    101, 100, 32, 108, 97, 110, 103, 117, 97, 103, 101, 115>>
\* "Error: unsupported language '" and "'"
UnsupportedLanguage == <<69, 114, 114, 111, 114, 58, 32, 117, 110, 115, 117, 112, 112,
                       111, 114, 116, 101, 100, 32, 108, 97, 110, 103, 117, 97, 103,
                       101, 32, 39>>
\* "Supported languages: " and ", "
SupportedLabel == <<83, 117, 112, 112, 111, 114, 116, 101, 100, 32, 108, 97, 110,
                  103, 117, 97, 103, 101, 115, 58, 32>>
\* "Error reading file: " and "Error reading stdin: "
ReadFileError == <<69, 114, 114, 111, 114, 32, 114, 101, 97, 100, 105, 110, 103,
                 32, 102, 105, 108, 101, 58, 32>>
ReadStdinError == <<69, 114, 114, 111, 114, 32, 114, 101, 97, 100, 105, 110, 103,
                  32, 115, 116, 100, 105, 110, 58, 32>>
\* "Error executing query: "
ExecuteQueryError == <<69, 114, 114, 111, 114, 32, 101, 120, 101, 99, 117, 116, 105,
                     110, 103, 32, 113, 117, 101, 114, 121, 58, 32>>
\* "invalid query: "
InvalidQueryPrefix == <<105, 110, 118, 97, 108, 105, 100, 32, 113, 117, 101, 114,
                      121, 58, 32>>

\* the loop of Println calls of --list-languages
LanguageList ==
  ListHeader \o <<NL>>
  \o Flatten([i \in 1..Len(getSupportedLanguages) |->
                ListBullet \o getSupportedLanguages[i] \o <<NL>>])

(***************************************************************************)
(* The query, as the engine compiles it.                                   *)
(***************************************************************************)
NoQuery == ""
GoodQuery == "(_) @p @q"
BadQuery == "(_"
\* sitter.NewQuery's err is nil exactly for a well-formed pattern
Compiles(q) == q = GoodQuery
\* q.CaptureNames(): "p", "q"
CaptureNames == <<<<112>>, <<113>>>>
\* what the engine may put in a match: a capture index and a node
Captures == {[Index |-> i, Node |-> n] : i \in {0, 1}, n \in {1, 2}}

\* a nil error, and fmt.Errorf("invalid query: %v", err)
NoError == <<>>
InvalidQuery(q) == InvalidQueryPrefix \o QueryErrorText

Resources == {"parser", "tree", "query", "cursor"}

(***************************************************************************)
(* What printTree and executeQuery print.                                  *)
(***************************************************************************)
\* a variant that replaces the tab by the newline's escape
EscapeCopyPaste(content) ==
  ReplaceAll(ReplaceAll(content, NL, EscNL), TAB, EscNL)

\* the two ReplaceAll calls: newline and tab become two-byte escapes
Escape(content) == ReplaceAll(ReplaceAll(content, NL, EscNL), TAB, EscTAB)

\* the text between the quotes of a named leaf
LeafDisplay(content) ==
  LET d == Escape(content)
  IN IF Len(d) > TruncLimit THEN SubSeq(d, 1, TruncKeep) \o Ellipsis ELSE d

\* what printTree prints for node n before it visits the children
NodeLine(n, depth) ==
  IF IsNamed(n)
  THEN IF ChildCount(n) = 0
       THEN Indent(depth) \o <<40>> \o Kind(n) \o <<32, 34>>
            \o LeafDisplay(Content(n)) \o <<34, 41, NL>>
       ELSE Indent(depth) \o <<40>> \o Kind(n) \o <<NL>>
  ELSE Indent(depth) \o <<34>> \o Escape(Content(n)) \o <<34, NL>>

\* a variant that closes every node with children, named or not
ClosingLineAnyParent(n, depth) ==
  IF ChildCount(n) > 0 THEN Indent(depth) \o <<41, NL>> ELSE <<>>

\* what printTree prints for node n after the children
ClosingLine(n, depth) ==
  IF IsNamed(n) /\ ChildCount(n) > 0 THEN Indent(depth) \o <<41, NL>>
  ELSE <<>>

\* the scanner loop: every token followed by a newline
ContentLines(content) ==
  Flatten([i \in 1..Len(ScanLines(content)) |-> ScanLines(content)[i] \o <<NL>>])

\* the body of the loop over match.Captures for one capture
CaptureBlock(c) ==
  LET sp == tree[c.Node].startPosition
      ep == tree[c.Node].endPosition
  IN <<64>> \o CaptureNames[c.Index + 1] \o <<NL>>
     \o StartLabel \o Itoa(sp.Row + 1) \o <<58>> \o Itoa(sp.Column) \o <<NL>>
     \o EndLabel \o Itoa(ep.Row + 1) \o <<58>> \o Itoa(ep.Column) \o <<NL>>
     \o ContentLabel \o <<NL>>
     \o ContentLines(Content(c.Node))
     \o <<NL>>

\* a variant that prints a node once per match
CapturesOutputDedup(caps) ==
  Flatten([i \in 1..Len(caps) |->
             IF \E j \in 1..(i - 1) : caps[j].Node = caps[i].Node THEN <<>>
             ELSE CaptureBlock(caps[i])])

\* the loop over match.Captures
CapturesOutput(caps) == Flatten([i \in 1..Len(caps) |-> CaptureBlock(caps[i])])

\* a variant that separates from the first match on
SeparatorFromFirst(count) == IF count >= 1 THEN <<NL>> ELSE <<>>

\* the blank line of a match that is not the first
Separator(count) == IF count > 1 THEN <<NL>> ELSE <<>>

\* a variant that reports whatever the count
NoMatchReportAlways(count) == NoMatchesFound \o <<NL>>

\* the report of no match, after the loop
NoMatchReport(count) == IF count = 0 THEN NoMatchesFound \o <<NL>> ELSE <<>>

(***************************************************************************)
(* Init: flag.Parse() has returned.  source is what the file or standard   *)
(* input holds and tree is what the parser will make of it.                *)
(***************************************************************************)
\* a run that reads its input and goes on to parse it
ParsingRun ==
  /\ listLanguages = FALSE
  /\ lang = GoLang
  /\ readFails = FALSE

Init ==
  /\ \/ /\ ParsingRun /\ args = <<>>
        /\ query = NoQuery
        /\ source \in Seqs(TreeBytes, MaxSrcLen)
        /\ tree \in TreesOf(source)
     \/ /\ ParsingRun /\ args \in {<<>>, <<FileName>>}
        /\ query = NoQuery
        /\ source \in LongLeaves
        /\ tree = LeafTreeOf(source)
     \/ /\ ParsingRun /\ args = <<>>
        /\ query \in {GoodQuery, BadQuery}
        /\ source \in Seqs(QueryBytes, MaxQuerySrcLen)
        /\ tree = QueryTreeOf(source)
     \/ \* the runs that end before the parser is created
        /\ listLanguages \in BOOLEAN
        /\ lang \in {NoLang, GoLang, UnknownLang}
        /\ args \in {<<>>, <<FileName>>}
        /\ readFails \in BOOLEAN
        /\ listLanguages \/ lang # GoLang \/ readFails
        /\ query \in {NoQuery, GoodQuery, BadQuery}
        /\ source = <<>>
        /\ tree = LeafTreeOf(source)
  /\ pc = "main_list_languages"
  /\ stdout = <<>>
  /\ stderr = <<>>
  /\ exitCode = -1
  /\ res = [r \in Resources |-> [state |-> "none", closes |-> 0]]
  /\ deferMain = <<>>
  /\ deferExec = <<>>
  /\ err = NoError
  /\ matchCount = 0
  /\ stream = <<>>
  /\ stack = <<>>

Open(r) == [res EXCEPT ![r] = [state |-> "open", closes |-> 0]]
Close(r) == [res EXCEPT ![r] = [state |-> "closed", closes |-> @.closes + 1]]

(***************************************************************************)
(* main                                                                    *)
(***************************************************************************)
\* if *listLanguages: print the sorted language names and os.Exit(0)
ListLanguages ==
  /\ pc = "main_list_languages"
  /\ IF listLanguages
     THEN /\ stdout' = stdout \o LanguageList
          /\ exitCode' = 0
          /\ pc' = "exited"
     ELSE /\ pc' = "main_check_lang"
          /\ UNCHANGED <<stdout, exitCode>>
  /\ UNCHANGED <<cmdline, source, tree, query, stderr, res, deferMain,
                 deferExec, err, matchCount, stream, stack>>

\* if *lang == "": two lines on stderr and os.Exit(1)
CheckLang ==
  /\ pc = "main_check_lang"
  /\ IF lang = NoLang
     THEN /\ stderr' = stderr \o LangRequired \o <<NL>>
                        \o UseListLanguages \o <<NL>>
          /\ exitCode' = 1
          /\ pc' = "exited"
     ELSE /\ pc' = "main_lookup_language"
          /\ UNCHANGED <<stderr, exitCode>>
  /\ UNCHANGED <<cmdline, source, tree, query, stdout, res, deferMain,
                 deferExec, err, matchCount, stream, stack>>

\* language, ok := supportedLanguages[*lang]; if !ok: stderr and os.Exit(1)
LookupLanguage ==
  /\ pc = "main_lookup_language"
  /\ IF lang \notin LanguageNames
     THEN /\ stderr' = stderr \o UnsupportedLanguage \o lang \o <<39, NL>>
                        \o SupportedLabel
                        \o Join(getSupportedLanguages, <<44, 32>>) \o <<NL>>
          /\ exitCode' = 1
          /\ pc' = "exited"
     ELSE /\ pc' = "main_read_input"
          /\ UNCHANGED <<stderr, exitCode>>
  /\ UNCHANGED <<cmdline, source, tree, query, stdout, res, deferMain,
                 deferExec, err, matchCount, stream, stack>>

\* os.ReadFile(args[0]) or io.ReadAll(os.Stdin); on an error stderr and
\* os.Exit(1)
ReadInput ==
  /\ pc = "main_read_input"
  /\ IF readFails
     THEN /\ stderr' = stderr
                        \o (IF Len(args) > 0 THEN ReadFileError
                            ELSE ReadStdinError)
                        \o ReadErrorText \o <<NL>>
          /\ exitCode' = 1
          /\ pc' = "exited"
     ELSE /\ pc' = "main_new_parser"
          /\ UNCHANGED <<stderr, exitCode>>
  /\ UNCHANGED <<cmdline, source, tree, query, stdout, res, deferMain,
                 deferExec, err, matchCount, stream, stack>>

\* parser := sitter.NewParser(); defer parser.Close()
NewParser ==
  /\ pc = "main_new_parser"
  /\ res' = Open("parser")
  /\ deferMain' = <<"parser">> \o deferMain
  /\ pc' = "main_parse"
  /\ UNCHANGED <<cmdline, source, tree, query, stdout, stderr, exitCode, deferExec,
                 err, matchCount, stream, stack>>

\* tree := parser.Parse(input, nil); defer tree.Close()
Parse ==
  /\ pc = "main_parse"
  /\ res' = Open("tree")
  /\ deferMain' = <<"tree">> \o deferMain
  /\ pc' = "main_branch"
  /\ UNCHANGED <<cmdline, source, tree, query, stdout, stderr, exitCode, deferExec,
                 err, matchCount, stream, stack>>

\* if *query != "": call executeQuery, else printTree(tree.RootNode(), input, 0)
Branch ==
  /\ pc = "main_branch"
  /\ IF query # NoQuery
     THEN pc' = "eq_new_query" /\ stack' = stack
     ELSE /\ pc' = "pt"
          /\ stack' = <<[node |-> 1, depth |-> 0, i |-> 0, entered |-> FALSE]>>
  /\ UNCHANGED <<cmdline, source, tree, query, stdout, stderr, exitCode, res,
                 deferMain, deferExec, err, matchCount, stream>>

\* executeQuery returned an error: report it and os.Exit(1), which ends the
\* process at once (deferred calls do not run)
ExitOnError ==
  /\ pc = "main_check_err"
  /\ IF err # NoError
     THEN /\ stderr' = stderr \o ExecuteQueryError \o err \o <<NL>>
          /\ exitCode' = 1
          /\ pc' = "exited"
     ELSE /\ pc' = "main_return"
          /\ UNCHANGED <<stderr, exitCode>>
  /\ UNCHANGED <<cmdline, source, tree, query, stdout, res, deferMain, deferExec,
                 err, matchCount, stream, stack>>

\* main returns: its deferred calls run, last deferred first
MainDeferred ==
  /\ pc = "main_return"
  /\ deferMain # <<>>
  /\ res' = Close(Head(deferMain))
  /\ deferMain' = Tail(deferMain)
  /\ UNCHANGED <<cmdline, source, tree, query, pc, stdout, stderr, exitCode,
                 deferExec, err, matchCount, stream, stack>>

\* main has returned: the process ends with status 0
MainExit ==
  /\ pc = "main_return"
  /\ deferMain = <<>>
  /\ exitCode' = 0
  /\ pc' = "exited"
  /\ UNCHANGED <<cmdline, source, tree, query, stdout, stderr, res, deferMain,
                 deferExec, err, matchCount, stream, stack>>

(***************************************************************************)
(* executeQuery                                                            *)
(***************************************************************************)
\* a variant that notes the error and goes on
NewQueryIgnoringError ==
  /\ pc = "eq_new_query"
  /\ res' = Open("query")
  /\ deferExec' = <<"query">> \o deferExec
  /\ pc' = "eq_new_cursor"
  /\ err' = IF Compiles(query) THEN err ELSE InvalidQuery(query)
  /\ UNCHANGED <<cmdline, source, tree, query, stdout, stderr, exitCode, deferMain,
                 matchCount, stream, stack>>

\* q, err := sitter.NewQuery(language, queryStr); on an error return it,
\* else defer q.Close()
NewQuery ==
  /\ pc = "eq_new_query"
  /\ IF Compiles(query)
     THEN /\ res' = Open("query")
          /\ deferExec' = <<"query">> \o deferExec
          /\ pc' = "eq_new_cursor"
          /\ err' = err
     ELSE /\ err' = InvalidQuery(query)
          /\ pc' = "main_check_err"
          /\ UNCHANGED <<res, deferExec>>
  /\ UNCHANGED <<cmdline, source, tree, query, stdout, stderr, exitCode, deferMain,
                 matchCount, stream, stack>>

\* qc := sitter.NewQueryCursor(); defer qc.Close(); matches := qc.Matches(..)
NewQueryCursor ==
  /\ pc = "eq_new_cursor"
  /\ res' = Open("cursor")
  /\ deferExec' = <<"cursor">> \o deferExec
  /\ matchCount' = 0
  /\ pc' = "eq_loop"
  /\ UNCHANGED <<cmdline, source, tree, query, stdout, stderr, exitCode, deferMain,
                 err, stream, stack>>

\* one turn of the loop: matches.Next() yields a match, which is printed
NextMatch ==
  /\ pc = "eq_loop"
  /\ matchCount < MaxMatches
  /\ \E caps \in Seqs(Captures, MaxCaptures - Len(Flatten(stream))) :
       /\ stream' = Append(stream, caps)
       /\ matchCount' = matchCount + 1
       /\ stdout' = stdout \o Separator(matchCount + 1) \o CapturesOutput(caps)
  /\ UNCHANGED <<cmdline, source, tree, query, pc, stderr, exitCode, res, deferMain,
                 deferExec, err, stack>>

\* matches.Next() yields nil: leave the loop, report no match, return nil
EndOfMatches ==
  /\ pc = "eq_loop"
  /\ stdout' = stdout \o NoMatchReport(matchCount)
  /\ err' = NoError
  /\ pc' = "eq_return"
  /\ UNCHANGED <<cmdline, source, tree, query, stderr, exitCode, res, deferMain,
                 deferExec, matchCount, stream, stack>>

\* executeQuery returns: its deferred calls run, last deferred first
ExecDeferred ==
  /\ pc = "eq_return"
  /\ deferExec # <<>>
  /\ res' = Close(Head(deferExec))
  /\ deferExec' = Tail(deferExec)
  /\ UNCHANGED <<cmdline, source, tree, query, pc, stdout, stderr, exitCode,
                 deferMain, err, matchCount, stream, stack>>

ExecReturn ==
  /\ pc = "eq_return"
  /\ deferExec = <<>>
  /\ pc' = "main_check_err"
  /\ UNCHANGED <<cmdline, source, tree, query, stdout, stderr, exitCode, res,
                 deferMain, deferExec, err, matchCount, stream, stack>>

(***************************************************************************)
(* printTree, its recursion as a stack of frames (the top is the last)     *)
(***************************************************************************)
Top == stack[Len(stack)]

\* the node's own line
Enter ==
  /\ pc = "pt"
  /\ stack # <<>>
  /\ ~Top.entered
  /\ stdout' = stdout \o NodeLine(Top.node, Top.depth)
  /\ stack' = [stack EXCEPT ![Len(stack)].entered = TRUE]
  /\ UNCHANGED <<cmdline, source, tree, query, pc, stderr, exitCode, res, deferMain,
                 deferExec, err, matchCount, stream>>

\* one turn of the loop over the children: printTree(child, source, depth+1)
Descend ==
  /\ pc = "pt"
  /\ stack # <<>>
  /\ Top.entered
  /\ Top.i < ChildCount(Top.node)
  /\ stack' = Append([stack EXCEPT ![Len(stack)].i = @ + 1],
                     [node |-> Child(Top.node, Top.i), depth |-> Top.depth + 1,
                      i |-> 0, entered |-> FALSE])
  /\ UNCHANGED <<cmdline, source, tree, query, pc, stdout, stderr, exitCode, res,
                 deferMain, deferExec, err, matchCount, stream>>

\* the loop is over: the closing line of a named node with children, return
Return ==
  /\ pc = "pt"
  /\ stack # <<>>
  /\ Top.entered
  /\ Top.i = ChildCount(Top.node)
  /\ stdout' = stdout \o ClosingLine(Top.node, Top.depth)
  /\ stack' = SubSeq(stack, 1, Len(stack) - 1)
  /\ pc' = IF Len(stack) = 1 THEN "main_return" ELSE "pt"
  /\ UNCHANGED <<cmdline, source, tree, query, stderr, exitCode, res, deferMain,
                 deferExec, err, matchCount, stream>>

Next ==
  \/ ListLanguages
  \/ CheckLang
  \/ LookupLanguage
  \/ ReadInput
  \/ NewParser
  \/ Parse
  \/ Branch
  \/ ExitOnError
  \/ MainDeferred
  \/ MainExit
  \/ NewQuery
  \/ NewQueryCursor
  \/ NextMatch
  \/ EndOfMatches
  \/ ExecDeferred
  \/ ExecReturn
  \/ Enter
  \/ Descend
  \/ Return

Spec == Init /\ [][Next]_vars

(***************************************************************************)
(* Properties.  Reading the output back: lines, capture blocks, characters *)
(***************************************************************************)
\* the lines of a byte stream, without their newlines
RECURSIVE SplitLines(_)
SplitLines(out) ==
  IF out = <<>> THEN <<>>
  ELSE LET j == FirstNL(out)
       IN IF j = 0 THEN <<out>>
          ELSE <<SubSeq(out, 1, j - 1)>>
               \o SplitLines(SubSeq(out, j + 1, Len(out)))

RECURSIVE JoinNL(_)
JoinNL(ls) ==
  IF ls = <<>> THEN <<>>
  ELSE IF Len(ls) = 1 THEN ls[1]
  ELSE ls[1] \o <<NL>> \o JoinNL(Tail(ls))

\* the captures of the matches ms, in the order yielded
CapturesOf(ms) == Flatten(ms)

\* the match of ms the k-th capture belongs to
MatchOf(ms, k) ==
  CHOOSE m \in 1..Len(ms) :
    /\ Len(Flatten(SubSeq(ms, 1, m))) >= k
    /\ Len(Flatten(SubSeq(ms, 1, m - 1))) < k

\* the indices of the lines of ls that open a capture block (no source byte
\* of a query run is an @)
HeaderIdx(ls) ==
  SelectSeq([i \in 1..Len(ls) |-> i],
            LAMBDA i : Len(ls[i]) > 0 /\ ls[i][1] = 64)

\* the lines from the k-th header up to the next header, or to the end
BlockLines(ls, hs, k) ==
  SubSeq(ls, hs[k], IF k < Len(hs) THEN hs[k + 1] - 1 ELSE Len(ls))

\* the matches that begin between the k-th capture and the next one (or the
\* end): each printed one separating blank line
MatchesBegunAfter(ms, k) ==
  (IF k < Len(Flatten(ms)) THEN MatchOf(ms, k + 1) ELSE Len(ms))
  - MatchOf(ms, k)

PointText(label, pt) ==
  label \o Itoa(pt.Row + 1) \o <<58>> \o Itoa(pt.Column)

\* main has created the parser: the run did not end on its command line
\* or on reading its input
Parsed == res["parser"].state # "none"

QueryReturned ==
  /\ Parsed /\ query # NoQuery
  /\ pc \in {"eq_return", "main_check_err", "main_return", "exited"}

\* the states the output is read back in: after every turn of the match
\* loop, and when the process has ended
ReportObserved ==
  Parsed /\ query = GoodQuery /\ pc \in {"eq_loop", "exited"}

\* C1: when the stream yields no match, standard output is exactly the line
\* "No matches found"; when it yields one or more matches (also matches
\* without captures), no line of the output is "No matches found".
C1_NoMatchesFound ==
  query = GoodQuery =>
    /\ (QueryReturned /\ stream = <<>>) => stdout = NoMatchesFound \o <<NL>>
    /\ (ReportObserved /\ stream # <<>>) =>
         LET ls == SplitLines(stdout)
         IN \A i \in 1..Len(ls) : ls[i] # NoMatchesFound
    /\ (pc = "eq_loop" /\ stream = <<>>) => stdout = <<>>

C1_Witness ==
  /\ pc = "exited" /\ query = GoodQuery /\ stream = <<>>
  /\ stdout = NoMatchesFound \o <<NL>>

\* the outputs of the matches, one blank line between consecutive ones
RECURSIVE JoinBlocks(_)
JoinBlocks(blocks) ==
  IF blocks = <<>> THEN <<>>
  ELSE IF Len(blocks) = 1 THEN blocks[1]
  ELSE JoinBlocks(SubSeq(blocks, 1, Len(blocks) - 1))
       \o <<NL>> \o blocks[Len(blocks)]

\* C2: the output of each match after the first follows the output of the
\* previous match after exactly one blank line, and nothing follows the
\* output of the last match.
C2_OneBlankLineBetweenMatches ==
  (ReportObserved /\ stream # <<>>) =>
    stdout = JoinBlocks([m \in 1..Len(stream) |->
                           Flatten([i \in 1..Len(stream[m]) |->
                                      CaptureBlock(stream[m][i])])])

C2_Witness ==
  /\ pc = "exited" /\ Len(stream) = 3
  /\ Len(stream[1]) = 1 /\ Len(stream[2]) = 0 /\ Len(stream[3]) = 1

\* C3: the output holds one capture block per capture yielded, in the order
\* the engine yielded them (matches in order, captures in each match's
\* order): the k-th block's name and positions are the k-th capture's.
C3_CapturesInEngineOrder ==
  ReportObserved =>
    LET ls == SplitLines(stdout)
        hs == HeaderIdx(ls)
        cs == CapturesOf(stream)
    IN /\ Len(hs) = Len(cs)
       /\ \A k \in 1..Len(hs) :
            LET c == cs[k]
                b == BlockLines(ls, hs, k)
            IN /\ Len(b) >= 5
               /\ b[1] = <<64>> \o CaptureNames[c.Index + 1]
               /\ b[2] = PointText(StartLabel, tree[c.Node].startPosition)
               /\ b[3] = PointText(EndLabel, tree[c.Node].endPosition)
               /\ b[4] = ContentLabel

\* two captures of one node in one match, the later-named first, then a
\* match without captures
C3_Witness ==
  /\ pc = "exited" /\ Len(source) = 1 /\ Len(stream) = 2
  /\ stream[1] = <<[Index |-> 1, Node |-> 2], [Index |-> 0, Node |-> 2]>>

\* C4: for every capture, the lines printed after "content:" joined with
\* newlines are the node's source slice, and one blank line follows them.
C4_ContentIsExactSlice ==
  ReportObserved =>
    LET ls == SplitLines(stdout)
        hs == HeaderIdx(ls)
        cs == CapturesOf(stream)
    IN Len(hs) = Len(cs) =>
         \A k \in 1..Len(hs) :
           LET b == BlockLines(ls, hs, k)
               last == Len(b) - MatchesBegunAfter(stream, k)
           IN /\ last >= 5
              /\ b[last] = <<>>
              /\ JoinNL(SubSeq(b, 5, last - 1)) = Content(cs[k].Node)

\* C5: a query that does not compile makes executeQuery return an "invalid
\* query" error with no cursor created, no match iterated and nothing on
\* standard output, and the process exits with status 1; a query that
\* compiles makes executeQuery return no error.
C5_InvalidQueryFailsFast ==
  /\ (Parsed /\ query = BadQuery) =>
       /\ stdout = <<>> /\ stream = <<>> /\ matchCount = 0
       /\ res["cursor"].state = "none" /\ res["query"].state = "none"
       /\ pc \notin {"eq_new_cursor", "eq_loop", "eq_return", "main_return"}
       /\ pc \in {"main_check_err", "exited"} =>
            (/\ Len(err) > Len(InvalidQueryPrefix)
             /\ SubSeq(err, 1, Len(InvalidQueryPrefix)) = InvalidQueryPrefix)
       /\ pc = "exited" => exitCode = 1
  /\ (query = GoodQuery /\ QueryReturned) => err = NoError

C5_Witness ==
  /\ pc = "exited" /\ query = BadQuery /\ exitCode = 1
  /\ err = InvalidQuery(BadQuery) /\ stdout = <<>>

\* C6: when the process has ended, every resource that was acquired has
\* been closed exactly once.
C6_AcquiredResourcesReleased ==
  pc = "exited" =>
    \A r \in Resources :
      res[r].state # "none" => (res[r].state = "closed" /\ res[r].closes = 1)

(***************************************************************************)
(* Properties of the tree dump.                                            *)
(***************************************************************************)
\* UTF-8: the bytes a character that starts with byte b takes
Width(b) ==
  IF b \in 194..223 THEN 2
  ELSE IF b \in 224..239 THEN 3
  ELSE IF b \in 240..244 THEN 4
  ELSE 1

\* a whole multi-byte character starts at s[j]
Complete(s, j) ==
  /\ j + Width(s[j]) - 1 <= Len(s)
  /\ \A k \in (j + 1)..(j + Width(s[j]) - 1) : s[k] \in 128..191

\* s[i] starts a character: it is not a later byte of a whole character
\* (a byte of a broken character counts as a character of its own)
CharStart(s, i) ==
  ~\E j \in {k \in (i - 3)..(i - 1) : k >= 1} :
     i - j < Width(s[j]) /\ Complete(s, j)

CharStarts(s) == {i \in 1..Len(s) : CharStart(s, i)}

\* the number of characters of s
CharLen(s) == Cardinality(CharStarts(s))

\* the first n characters of s
FirstChars(s, n) ==
  LET starts == CharStarts(s)
  IN IF Cardinality(starts) <= n THEN s
     ELSE LET p == CHOOSE q \in starts :
                     Cardinality({r \in starts : r < q}) = n
          IN SubSeq(s, 1, p - 1)

EndsWithEllipsis(s) ==
  Len(s) >= 3 /\ SubSeq(s, Len(s) - 2, Len(s)) = Ellipsis

\* printTree has just printed the line of a named leaf
LeafJustPrinted ==
  /\ pc = "pt" /\ stack # <<>> /\ Top.entered
  /\ IsNamed(Top.node) /\ ChildCount(Top.node) = 0

\* the text between the quotes of the last line printed, a named leaf's
ShownOfLastLine ==
  LET ls == SplitLines(stdout)
      line == ls[Len(ls)]
      skip == 2 * Top.depth + 1 + Len(Kind(Top.node)) + 2
  IN SubSeq(line, skip + 1, Len(line) - 2)

\* C7: the text shown for a named leaf holds no raw newline or tab, is at
\* most 50 characters long, ends in "..." when the leaf's text is longer than
\* 50 characters, is the whole escaped text when that is at most 50
\* characters long, and else its first 47 characters followed by "...".
C7_LeafDisplayBounded ==
  LeafJustPrinted =>
    LET shown == ShownOfLastLine
        pre == Content(Top.node)
        esc == Escape(pre)
    IN /\ \A i \in 1..Len(shown) : shown[i] \notin {NL, TAB}
       /\ CharLen(shown) <= TruncLimit
       /\ CharLen(pre) > TruncLimit => EndsWithEllipsis(shown)
       /\ CharLen(esc) <= TruncLimit => shown = esc
       /\ CharLen(esc) > TruncLimit =>
            shown = FirstChars(esc, TruncKeep) \o Ellipsis

\* C8: a named leaf's text is cut exactly when its escaped form is longer
\* than 50 characters, and what is shown is then 47 whole characters of
\* the escaped text followed by "...": no character is cut in the middle.
C8_TruncationByCharacters ==
  LeafJustPrinted =>
    LET shown == ShownOfLastLine
        esc == Escape(Content(Top.node))
    IN /\ (shown # esc) <=> (CharLen(esc) > TruncLimit)
       /\ shown # esc =>
            /\ EndsWithEllipsis(shown)
            /\ SubSeq(shown, 1, Len(shown) - 3) = FirstChars(esc, TruncKeep)

\* the nodes of the subtree of n, parents before children, children in
\* their stored order
RECURSIVE Preorder(_)
Preorder(n) ==
  <<n>> \o Flatten([j \in 1..ChildCount(n) |-> Preorder(Child(n, j - 1))])

IsLeaf(n) == ChildCount(n) = 0

\* the leaves of the tree in traversal order
Leaves == SelectSeq(Preorder(1), IsLeaf)

\* a line made of spaces and one closing parenthesis
IsClosing(line) ==
  /\ Len(line) > 0 /\ line[Len(line)] = 41
  /\ \A i \in 1..(Len(line) - 1) : line[i] = 32

\* the text between the first and the last quote of a line
Quoted(line) ==
  LET qs == {i \in 1..Len(line) : line[i] = 34}
      lo == CHOOSE i \in qs : \A j \in qs : i <= j
      hi == CHOOSE i \in qs : \A j \in qs : j <= i
  IN SubSeq(line, lo + 1, hi - 1)

\* reversing the escapes, left to right: \n is a newline, \t is a tab
RECURSIVE Unescape(_)
Unescape(s) ==
  IF s = <<>> THEN <<>>
  ELSE IF Len(s) >= 2 /\ s[1] = BSL /\ s[2] = 110
       THEN <<NL>> \o Unescape(SubSeq(s, 3, Len(s)))
  ELSE IF Len(s) >= 2 /\ s[1] = BSL /\ s[2] = 116
       THEN <<TAB>> \o Unescape(SubSeq(s, 3, Len(s)))
  ELSE <<s[1]>> \o Unescape(Tail(s))

\* the node-range invariant: start <= end, children inside the parent,
\* siblings in increasing order without overlap
NodeRangeInvariant ==
  \A n \in 1..Len(tree) :
    /\ tree[n].startByte <= tree[n].endByte
    /\ \A j \in 1..ChildCount(n) :
         LET c == tree[n].children[j]
         IN /\ tree[n].startByte <= tree[c].startByte
            /\ tree[c].endByte <= tree[n].endByte
            /\ j > 1 => tree[tree[n].children[j - 1]].endByte
                        <= tree[c].startByte

\* no named leaf is long enough for printTree to cut it
NoLeafTruncated ==
  \A n \in 1..Len(tree) :
    (IsNamed(n) /\ IsLeaf(n)) => Len(Escape(Content(n))) <= TruncLimit

\* the leaves' ranges, in traversal order, cover the source without a gap
LeavesTileSource ==
  LET lv == Leaves
  IN /\ tree[lv[1]].startByte = 0
     /\ tree[lv[Len(lv)]].endByte = Len(source)
     /\ \A k \in 1..(Len(lv) - 1) :
          tree[lv[k]].endByte = tree[lv[k + 1]].startByte

\* the source holds no backslash followed by the letter n or t
NoEscapeLookalike ==
  \A i \in 1..(Len(source) - 1) :
    ~(source[i] = BSL /\ source[i + 1] \in {110, 116})

TreeDumped == Parsed /\ query = NoQuery /\ pc = "exited"

\* what the dump shows for the leaves, concatenated, escapes reversed
LeavesReadBack ==
  LET ls == SplitLines(stdout)
      open == SelectSeq(ls, LAMBDA l : ~IsClosing(l))
      po == Preorder(1)
      shown == [k \in 1..Len(po) |->
                  IF IsLeaf(po[k]) /\ k <= Len(open) THEN Quoted(open[k])
                  ELSE <<>>]
  IN Unescape(Flatten(shown))

\* C9 as stated: when no leaf was truncated, the leaves' shown texts in
\* traversal order, escapes reversed, are the source.
C9_RoundTrip ==
  (TreeDumped /\ NodeRangeInvariant /\ NoLeafTruncated) =>
    LeavesReadBack = source

\* C9 amended: the same when moreover the leaves' ranges cover the source
\* without a gap and the source holds no backslash followed by n or t.
C9_RoundTripOfTiledSource ==
  (TreeDumped /\ NodeRangeInvariant /\ NoLeafTruncated
     /\ LeavesTileSource /\ NoEscapeLookalike) =>
    LeavesReadBack = source

C9_Witness ==
  /\ TreeDumped /\ Len(tree) = 5 /\ LeavesTileSource /\ NoLeafTruncated
  /\ source = <<BSL, NL, TAB>>
  /\ tree[3].endByte = 1 /\ tree[4].endByte = 2
  /\ LeavesReadBack = source

RECURSIVE SumSeq(_)
SumSeq(ns) == IF ns = <<>> THEN 0 ELSE Head(ns) + SumSeq(Tail(ns))

\* the lines of the block of node n: its own line, its children's blocks,
\* and a closing line when it is named and has children
RECURSIVE BlockLen(_)
BlockLen(n) ==
  1 + SumSeq([j \in 1..ChildCount(n) |-> BlockLen(Child(n, j - 1))])
    + (IF IsNamed(n) /\ ChildCount(n) > 0 THEN 1 ELSE 0)

\* the line at which the block of child j (from 0) of n starts, when the
\* block of n starts at line i
ChildStart(n, j, i) ==
  i + 1 + SumSeq([k \in 1..j |-> BlockLen(Child(n, k - 1))])

LeadingSpaces(line) ==
  CHOOSE k \in 0..Len(line) :
    /\ \A j \in 1..k : line[j] = 32
    /\ k = Len(line) \/ line[k + 1] # 32

\* line is the line of node n at the given depth
IsLineOf(n, depth, line) ==
  /\ LeadingSpaces(line) = 2 * depth
  /\ LET rest == SubSeq(line, 2 * depth + 1, Len(line))
         head == <<40>> \o Kind(n)
     IN IF IsNamed(n) /\ ChildCount(n) > 0 THEN rest = head
        ELSE IF IsNamed(n)
        THEN /\ Len(rest) >= Len(head) + 4
             /\ SubSeq(rest, 1, Len(head) + 2) = head \o <<32, 34>>
             /\ SubSeq(rest, Len(rest) - 1, Len(rest)) = <<34, 41>>
        ELSE rest = <<34>> \o Escape(Content(n)) \o <<34>>

\* the block of n starts at line i of ls and is laid out as claimed
RECURSIVE WellFormed(_, _, _, _)
WellFormed(ls, n, depth, i) ==
  /\ i + BlockLen(n) - 1 <= Len(ls)
  /\ IsLineOf(n, depth, ls[i])
  /\ \A j \in 0..(ChildCount(n) - 1) :
       WellFormed(ls, Child(n, j), depth + 1, ChildStart(n, j, i))
  /\ (IsNamed(n) /\ ChildCount(n) > 0) =>
       ls[i + BlockLen(n) - 1] = Indent(depth) \o <<41>>

\* C10: the dump holds one line per node in depth-first pre-order of the
\* stored children, indented two spaces per depth; a named node with
\* children opens with "(kind" and closes with ")" at its own indentation
\* around its children's blocks; every other node is one line, never closed.
C10_PreorderBalancedBlocks ==
  TreeDumped =>
    LET ls == SplitLines(stdout)
    IN Len(ls) = BlockLen(1) /\ WellFormed(ls, 1, 0, 1)

C10_Witness ==
  /\ TreeDumped /\ Len(tree) = 4 /\ ~IsNamed(2) /\ ChildCount(2) = 1
  /\ Len(source) = 3 /\ tree[3].endByte = 1 /\ tree[2].endByte = 2
  /\ Len(SplitLines(stdout)) = 5

====
